---- MODULE Spec2Model ----
(***************************************************************************)
(* A model of the ISO 8211 / S-57 catalog decoder: the subfield codec      *)
(* (data_parser.rs) and the leader / directory / data-descriptive-field    *)
(* parsers and Catalog::new (catalog.rs).                                  *)
(*                                                                         *)
(* Bytes are the integers 0..255.  A Rust `Result` is a record with a tag  *)
(* "Ok" or "Err"; a panic of the Rust code (an out-of-range slice, an      *)
(* `unwrap` on an error, an arithmetic underflow that either panics or     *)
(* wraps into an out-of-range index or allocation) is the tag "Panic".     *)
(* An Error is its chain of ErrorKinds, outermost context first, so that   *)
(* Error::kind() is the head of the chain.                                 *)
(***************************************************************************)
EXTENDS Integers, Sequences, FiniteSets, TLC

VARIABLES rdr, op, arg, ret

vars == <<rdr, op, arg, ret>>

----------------------------------------------------------------------------
(* Separators, catalog.rs:13-14 *)
RECORD_SEPARATOR == 30
UNIT_SEPARATOR == 31

(* The ASCII codes of the characters the inputs of the model are written in *)
Ord ==
    ("0" :> 48) @@ ("1" :> 49) @@ ("2" :> 50) @@ ("3" :> 51) @@ ("4" :> 52) @@
    ("5" :> 53) @@ ("6" :> 54) @@ ("7" :> 55) @@ ("8" :> 56) @@ ("9" :> 57) @@
    (" " :> 32) @@ ("!" :> 33) @@ ("%" :> 37) @@ ("&" :> 38) @@ ("(" :> 40) @@
    (")" :> 41) @@ ("+" :> 43) @@ ("," :> 44) @@ ("-" :> 45) @@ ("." :> 46) @@
    ("/" :> 47) @@ (";" :> 59) @@ ("A" :> 65) @@ ("C" :> 67) @@ ("D" :> 68) @@
    ("E" :> 69) @@ ("H" :> 72) @@ ("I" :> 73) @@ ("L" :> 76) @@ ("R" :> 82) @@
    ("T" :> 84) @@ ("X" :> 88) @@ ("a" :> 97) @@ ("e" :> 101) @@ ("j" :> 106) @@
    ("s" :> 115) @@ ("x" :> 120)

(* "abc".as_bytes(), the text given as a tuple of one-character strings *)
B(chars) == [i \in DOMAIN chars |-> Ord[chars[i]]]

(* A byte that is never part of a valid UTF-8 text *)
BadByte == 255

(* Rust's b[s..e]; the callers establish s <= e <= Len(b), as the code's     *)
(* slice would panic otherwise.                                             *)
Slice(b, s, e) == SubSeq(b, s + 1, e)

----------------------------------------------------------------------------
(* Results and errors *)
Ok(v) == [tag |-> "Ok", val |-> v, err |-> <<>>]
Err(chain) == [tag |-> "Err", val |-> <<>>, err |-> chain]
Panic == [tag |-> "Panic", val |-> <<>>, err |-> <<>>]

(* `let v = x; F(v)`: x is evaluated once and F applied to its value *)
Eval(x, F(_)) == CHOOSE y \in {F(v) : v \in {x}} : TRUE

(* The `?` operator: `let v = res?; K(v)`.  An error, or a panic, ends the  *)
(* function with it.                                                        *)
Bind(res, K(_)) == Eval(res, LAMBDA r : IF r.tag # "Ok" THEN r ELSE K(r.val))

(* An ErrorKind: its name and the String it carries (error.rs:47-91) *)
Kind(name) == [kind |-> name, lit |-> <<>>]
KindWith(name, text) == [kind |-> name, lit |-> text]

(* From<ErrorKind> for Error: ErrorKind::K.into() *)
Fail(k) == Err(<<k>>)

(* ResultExt::context / with_context followed by `?`: an error is wrapped,   *)
(* its old chain becoming the cause; Ok and a panic pass through.           *)
Context(res, k) ==
    Eval(res, LAMBDA r : IF r.tag = "Err" THEN Err(<<k>> \o r.err) ELSE r)

(* Error::kind(), error.rs:11-13 *)
ErrKind(res) == res.err[1].kind

----------------------------------------------------------------------------
(* Text and number conversions of the standard library *)

(* std::str::from_utf8 succeeds.  The bytes of the model are ASCII or       *)
(* BadByte (0xFF), for which validity is: no byte above 0x7F.               *)
IsUtf8(b) == \A i \in DOMAIN b : b[i] < 128

IsDigit(c) == c >= 48 /\ c <= 57

AllDigits(t) == \A i \in DOMAIN t : IsDigit(t[i])

RECURSIVE DecVal(_)
DecVal(digits) ==
    Eval(digits, LAMBDA t :
        IF t = <<>> THEN 0
        ELSE DecVal(SubSeq(t, 1, Len(t) - 1)) * 10 + (t[Len(t)] - 48))

(* str::parse::<usize>: an optional '+', then one or more decimal digits.   *)
(* (Texts of the model have at most 9 digits, far from the 64-bit range.)   *)
StrToUsize(text) ==
    Eval(text, LAMBDA t :
    Eval(IF t # <<>> /\ t[1] = 43 THEN Tail(t) ELSE t, LAMBDA d :
        IF d # <<>> /\ AllDigits(d)
        THEN [ok |-> TRUE, val |-> DecVal(d)]
        ELSE [ok |-> FALSE, val |-> 0]))

(* str::parse::<i64>: an optional '+' or '-', then one or more digits *)
StrToI64(text) ==
    Eval(text, LAMBDA t :
    Eval(IF t # <<>> /\ t[1] \in {43, 45} THEN Tail(t) ELSE t, LAMBDA d :
        IF d # <<>> /\ AllDigits(d)
        THEN [ok |-> TRUE,
              val |-> IF t[1] = 45 THEN 0 - DecVal(d) ELSE DecVal(d)]
        ELSE [ok |-> FALSE, val |-> 0]))

(* The decimal mant * 10^-scale without trailing fraction zeros *)
RECURSIVE Normal(_, _)
Normal(mant, scale) ==
    Eval(<<mant, scale>>, LAMBDA v :
        IF v[2] > 0 /\ v[1] % 10 = 0 THEN Normal(v[1] \div 10, v[2] - 1)
        ELSE [mant |-> v[1], scale |-> v[2]])

(* str::parse::<f64> on the characters of the model (sign, digits, '.'):    *)
(* Sign? (Digit+ | Digit+ '.' Digit* | Digit* '.' Digit+).  The value is    *)
(* kept as an exact decimal; -0 equals 0 as for f64.                        *)
StrToF64(text) ==
    Eval(text, LAMBDA t :
    Eval(IF t # <<>> /\ t[1] \in {43, 45} THEN Tail(t) ELSE t, LAMBDA d :
        LET dots == {i \in DOMAIN d : d[i] = 46}
            dot == IF dots = {} THEN Len(d) + 1 ELSE CHOOSE i \in dots : TRUE
            ip == SubSeq(d, 1, dot - 1)
            fp == SubSeq(d, dot + 1, Len(d))
            n == Normal(DecVal(ip \o fp), Len(fp))
        IN  IF /\ Cardinality(dots) <= 1
               /\ AllDigits(ip) /\ AllDigits(fp)
               /\ ip \o fp # <<>>
            THEN [ok |-> TRUE,
                  val |-> IF t[1] = 45
                          THEN [mant |-> 0 - n.mant, scale |-> n.scale]
                          ELSE n]
            ELSE [ok |-> FALSE, val |-> 0]))

----------------------------------------------------------------------------
(* data_parser.rs: ParseData, ParseType, Data *)
ParseType == {"Integer", "String", "Float"}

Fixed(t, size) == [form |-> "Fixed", typ |-> t, size |-> size]
Variable(t) == [form |-> "Variable", typ |-> t]

(* Data::Integer(Option<i64>), Data::Float(Option<f64>): the option is a    *)
(* tuple of length 0 (None) or 1 (Some).                                    *)
DataInteger(opt) == [variant |-> "Integer", opt |-> opt]
DataFloat(opt) == [variant |-> "Float", opt |-> opt]
DataString(text) == [variant |-> "String", text |-> text]

(* Cursor::read_exact(size) succeeds: size bytes are left *)
CanReadExact(c, size) == c.pos + size <= Len(c.buf)

(* BufRead::read_until(delim): the number of bytes read, which are the      *)
(* bytes up to and including the first delim, or all that is left.          *)
RECURSIVE ReadUntilLen(_, _, _)
ReadUntilLen(buf, pos, delim) ==
    Eval(pos, LAMBDA p :
        IF p >= Len(buf) THEN 0
        ELSE IF buf[p + 1] = delim THEN 1
        ELSE 1 + ReadUntilLen(buf, p + 1, delim))

(* Convert without the is_empty tests: an empty numeric text goes to the    *)
(* number parser like any other.                                            *)
ConvertNoNull(t, text) ==
    Eval(text, LAMBDA d :
        CASE t = "String" -> Ok(DataString(d))
          [] t = "Integer" ->
                Eval(StrToI64(d), LAMBDA i :
                    IF i.ok THEN Ok(DataInteger(<<i.val>>))
                    ELSE Fail(KindWith("ParseIntError", d)))
          [] t = "Float" ->
                Eval(StrToF64(d), LAMBDA f :
                    IF f.ok THEN Ok(DataFloat(<<f.val>>))
                    ELSE Fail(KindWith("ParseFloatError", d))))

(* ParseData::parse, lines 72-96: the conversion of the decoded text *)
Convert(t, text) ==
    Eval(text, LAMBDA d :
        CASE t = "String" -> Ok(DataString(d))
          [] t = "Integer" ->
                IF d = <<>> THEN Ok(DataInteger(<<>>))
                ELSE Eval(StrToI64(d), LAMBDA i :
                        IF i.ok THEN Ok(DataInteger(<<i.val>>))
                        ELSE Fail(KindWith("ParseIntError", d)))
          [] t = "Float" ->
                IF d = <<>> THEN Ok(DataFloat(<<>>))
                ELSE Eval(StrToF64(d), LAMBDA f :
                        IF f.ok THEN Ok(DataFloat(<<f.val>>))
                        ELSE Fail(KindWith("ParseFloatError", d))))

(* ParseData::parse, lines 57-70: the bytes read for the descriptor pd from *)
(* the cursor c: [res, n] with n the bytes consumed.                        *)
ReadRaw(pd, c) ==
    IF pd.form = "Fixed"
    THEN IF CanReadExact(c, pd.size)
         THEN [res |-> Ok(Slice(c.buf, c.pos, c.pos + pd.size)), n |-> pd.size]
         ELSE [res |-> Fail(Kind("IOError")), n |-> 0]
    ELSE Eval(ReadUntilLen(c.buf, c.pos, UNIT_SEPARATOR), LAMBDA n :
            IF n = 0
            THEN [res |-> Panic, n |-> 0]
            ELSE [res |-> Ok(Slice(c.buf, c.pos, c.pos + n - 1)), n |-> n])

(* ParseData::parse *)
ParseDataParse(pd, c) ==
    Bind(ReadRaw(pd, c).res, LAMBDA data :
        IF ~IsUtf8(data) THEN Fail(Kind("UtfError"))
        ELSE Convert(pd.typ, data))

----------------------------------------------------------------------------
(* Bounds and inputs of the subfield codec *)
MaxWidth == 5

(* Subfield texts: those of tests::read_data, and empty, signed, malformed  *)
(* and non-UTF-8 ones.                                                      *)
Texts ==
    { <<>>,
      B(<<"0", "0", "0", "0", "1">>),
      B(<<"0", ".", "0", "0", "5">>),
      B(<<"-", "1">>),
      B(<<"1", "x">>),
      <<BadByte>> }

(* A text with or without the unit separator after it *)
Pieces == Texts \cup {t \o <<UNIT_SEPARATOR>> : t \in Texts}

(* The contents of a cursor: one subfield, or two of which the first ends  *)
(* with its separator, or a subfield after a text without separator.       *)
Buffers ==
    {p \o q : p \in Pieces, q \in {<<>>, B(<<"1">>), B(<<"-", "1">>) \o <<UNIT_SEPARATOR>>}}

Descriptors ==
    {Variable(t) : t \in ParseType}
        \cup {Fixed(t, w) : t \in ParseType, w \in 0..MaxWidth}

----------------------------------------------------------------------------
(* data_parser.rs: ParseData::from_str, and catalog.rs: the format controls *)

(* parse_to_string *)
ParseToString(bytes) ==
    Eval(bytes, LAMBDA b : IF IsUtf8(b) THEN Ok(b) ELSE Fail(Kind("UtfError")))

(* parse_to_usize *)
ParseToUsize(bytes) ==
    Bind(ParseToString(bytes), LAMBDA text :
    Eval(StrToUsize(text), LAMBDA n :
        IF n.ok THEN Ok(n.val) ELSE Fail(Kind("ParseIntError"))))

(* The length of the longest prefix of decimal digits: what \d+ or \d*      *)
(* matches at the start of s.                                               *)
RECURSIVE DigitRun(_)
DigitRun(text) ==
    Eval(text, LAMBDA s :
        IF s # <<>> /\ IsDigit(s[1]) THEN 1 + DigitRun(Tail(s)) ELSE 0)

(* The ParseType of a type letter A, I or R *)
TypeOf(c) ==
    CASE c = 65 -> "String"
      [] c = 73 -> "Integer"
      [] c = 82 -> "Float"

(* ParseData::from_str: FIELD_REGEX ^(\d+)?([AIR])(\(\d*\))? is matched at  *)
(* the start of s, whatever follows the match; an absent count is 1; a      *)
(* matched "()" makes the width's parse().unwrap() panic.                   *)
FromStr(token) ==
    Eval(token, LAMBDA s :
    Eval(DigitRun(s), LAMBDA nd :
    Eval(SubSeq(s, nd + 1, Len(s)), LAMBDA rest :
        IF rest = <<>> \/ rest[1] \notin {65, 73, 82}
        THEN Fail(KindWith("UnParsableFormatControl", s))
        ELSE Eval(Tail(rest), LAMBDA after :
             Eval(IF after # <<>> /\ after[1] = 40 THEN DigitRun(Tail(after)) ELSE 0,
                  LAMBDA wd :
                LET cap3 == /\ after # <<>> /\ after[1] = 40
                            /\ Len(after) >= wd + 2 /\ after[wd + 2] = 41
                    num == IF nd = 0 THEN 1 ELSE DecVal(SubSeq(s, 1, nd))
                IN  IF ~cap3 THEN Ok(<<num, Variable(TypeOf(rest[1]))>>)
                    ELSE IF wd = 0 THEN Panic
                    ELSE Ok(<<num, Fixed(TypeOf(rest[1]),
                                         DecVal(SubSeq(after, 2, wd + 1)))>>))))))

(* slice::split / str::split: the pieces between the separators, empty ones *)
(* included; a sequence without separator is one piece.                     *)
RECURSIVE Split(_, _)
Split(bytes, sep) ==
    Eval(bytes, LAMBDA s :
        LET idx == {i \in DOMAIN s : s[i] = sep}
        IN  IF idx = {} THEN <<s>>
            ELSE Eval(CHOOSE k \in idx : \A j \in idx : k <= j, LAMBDA i :
                    <<SubSeq(s, 1, i - 1)>> \o Split(SubSeq(s, i + 1, Len(s)), sep)))

(* .map(from_str).collect::<Result<Vec<_>>>(): the tokens are parsed in     *)
(* order up to the first one that fails.                                    *)
RECURSIVE Collect(_)
Collect(tokens) ==
    Eval(tokens, LAMBDA ts :
        IF ts = <<>> THEN Ok(<<>>)
        ELSE Bind(FromStr(Head(ts)), LAMBDA h :
             Bind(Collect(Tail(ts)), LAMBDA r : Ok(<<h>> \o r))))

(* std::iter::repeat(x).take(n) *)
Repeat(x, n) == [i \in 1..n |-> x]

(* Expand yielding every descriptor once, whatever its count *)
RECURSIVE ExpandOnce(_)
ExpandOnce(pairs) ==
    Eval(pairs, LAMBDA ps :
        IF ps = <<>> THEN <<>>
        ELSE <<Head(ps)[2]>> \o ExpandOnce(Tail(ps)))

(* .flat_map(|pd| repeat(pd.1).take(pd.0)) *)
RECURSIVE Expand(_)
Expand(pairs) ==
    Eval(pairs, LAMBDA ps :
        IF ps = <<>> THEN <<>>
        ELSE Repeat(Head(ps)[2], Head(ps)[1]) \o Expand(Tail(ps)))

(* parse_format_controls taking a span of fewer than 2 bytes for an empty  *)
(* list of descriptors                                                     *)
ParseFormatControlsLenient(bytes) ==
    Eval(bytes, LAMBDA byte :
        IF Len(byte) < 2 THEN Ok(<<>>)
        ELSE Bind(ParseToString(Slice(byte, 1, Len(byte) - 1)), LAMBDA inner :
             Bind(Collect(Split(inner, 44)), LAMBDA pds : Ok(Expand(pds)))))

(* parse_format_controls *)
ParseFormatControls(bytes) ==
    Eval(bytes, LAMBDA byte :
        IF Len(byte) < 2 THEN Fail(Kind("EmptyFormatControls"))
        ELSE Bind(ParseToString(Slice(byte, 1, Len(byte) - 1)), LAMBDA inner :
             Bind(Collect(Split(inner, 44)), LAMBDA pds : Ok(Expand(pds)))))

----------------------------------------------------------------------------
(* Bounds and inputs of the format controls.  A token is given by its       *)
(* parts: count and width are tuples of length 0 (absent) or 1, letter is   *)
(* the type letter (or none, or another letter), tail is what follows.      *)
MaxCount == 2
MaxTokens == 3

RECURSIVE ToDec(_)
ToDec(n) == IF n < 10 THEN <<48 + n>> ELSE ToDec(n \div 10) \o <<48 + (n % 10)>>

Token(count, letter, width, tail) ==
    [count |-> count, letter |-> letter, width |-> width, tail |-> tail]

(* The token as it is written in a control string *)
Render(tok) ==
    (IF tok.count = <<>> THEN <<>> ELSE ToDec(tok.count[1]))
        \o tok.letter
        \o (IF tok.width = <<>> THEN <<>> ELSE <<40>> \o ToDec(tok.width[1]) \o <<41>>)
        \o tok.tail

Counts == {<<>>} \cup {<<n>> : n \in 0..MaxCount}
Widths == {<<>>, <<10>>} \cup {<<w>> : w \in 0..MaxWidth}
Letters == {B(<<"A">>), B(<<"I">>), B(<<"R">>), B(<<"X">>), <<>>}
Tails == {<<>>, B(<<"x">>), B(<<"(", ")">>), B(<<"(", "2">>)}

Tokens ==
    {Token(c, l, w, t) : c \in Counts, l \in Letters, w \in Widths, t \in Tails}

(* The tokens control strings are made of: those of test_parse_format_controls *)
(* and tests::parsedata, a zero count, and malformed ones.                  *)
SeqTokens ==
    { Token(<<>>, B(<<"A">>), <<2>>, <<>>),
      Token(<<2>>, B(<<"I">>), <<10>>, <<>>),
      Token(<<2>>, B(<<"R">>), <<>>, <<>>),
      Token(<<>>, B(<<"I">>), <<>>, <<>>),
      Token(<<0>>, B(<<"A">>), <<>>, <<>>),
      Token(<<>>, B(<<"A">>), <<>>, B(<<"x">>)),
      Token(<<>>, B(<<"R">>), <<>>, B(<<"(", ")">>)),
      Token(<<>>, <<>>, <<>>, <<>>) }

RECURSIVE Join(_, _)
Join(ss, sep) ==
    IF ss = <<>> THEN <<>>
    ELSE IF Len(ss) = 1 THEN ss[1]
    ELSE ss[1] \o <<sep>> \o Join(Tail(ss), sep)

(* The control string of the tokens, within parentheses or bare *)
ControlString(toks, wrapped) ==
    LET inner == Join([i \in DOMAIN toks |-> Render(toks[i])], 44)
    IN  IF wrapped THEN <<40>> \o inner \o <<41>> ELSE inner

(* Spans too short to hold a pair of parentheses *)
ShortSpans == {<<>>, <<40>>, <<41>>, <<44>>, <<BadByte>>}

TokenSeqs == UNION {[1..n -> SeqTokens] : n \in 0..MaxTokens}

----------------------------------------------------------------------------
(* catalog.rs: the data descriptive fields *)

(* FromStr for DataStructureCode, DataTypeCode and TruncEscSeq *)
DataStructureCodeFromStr(value) ==
    CASE value = B(<<"0">>) -> Ok("SDI")
      [] value = B(<<"1">>) -> Ok("LS")
      [] value = B(<<"2">>) -> Ok("MDS")
      [] OTHER -> Fail(KindWith("BadDataStructureCode", value))

(* A data type code decode that takes CS for a code out of the table *)
DataTypeCodeDefaulted(value) ==
    CASE value = B(<<"0">>) -> Ok("CS")
      [] value = B(<<"1">>) -> Ok("IP")
      [] value = B(<<"2">>) -> Ok("EP")
      [] value = B(<<"5">>) -> Ok("BF")
      [] value = B(<<"6">>) -> Ok("MDT")
      [] OTHER -> Ok("CS")

DataTypeCodeFromStr(value) ==
    CASE value = B(<<"0">>) -> Ok("CS")
      [] value = B(<<"1">>) -> Ok("IP")
      [] value = B(<<"2">>) -> Ok("EP")
      [] value = B(<<"5">>) -> Ok("BF")
      [] value = B(<<"6">>) -> Ok("MDT")
      [] OTHER -> Fail(KindWith("BadDataTypeCode", value))

TruncEscSeqFromStr(value) ==
    CASE value = B(<<" ", " ", " ">>) -> Ok("LE0")
      [] value = B(<<"-", "A", " ">>) -> Ok("LE1")
      [] value = B(<<"%", "/", "A">>) -> Ok("LE2")
      [] OTHER -> Fail(KindWith("BadTruncEscSeq", value))

(* parse_field_controls, on the 9 bytes that split_at(9) hands it *)
ParseFieldControls(bytes) ==
    Eval(bytes, LAMBDA byte :
    Bind(Bind(ParseToString(Slice(byte, 0, 1)), LAMBDA v :
              Context(DataStructureCodeFromStr(v), Kind("BadFieldControl"))),
         LAMBDA dsc :
    Bind(Bind(ParseToString(Slice(byte, 1, 2)), LAMBDA v :
              Context(DataTypeCodeFromStr(v), Kind("BadFieldControl"))),
         LAMBDA dtc :
    Bind(ParseToString(Slice(byte, 2, 4)), LAMBDA aux :
    Bind(ParseToString(Slice(byte, 4, 6)), LAMBDA prt :
    Bind(Bind(ParseToString(Slice(byte, 6, Len(byte))), LAMBDA v :
              Context(TruncEscSeqFromStr(v), Kind("BadFieldControl"))),
         LAMBDA tes :
        Ok([dsc |-> dsc, dtc |-> dtc, aux |-> aux, prt |-> prt, tes |-> tes])))))))

(* The name of the unnamed record identifier, "DRID" *)
DRID == B(<<"D", "R", "I", "D">>)

(* parse_array_descriptors *)
ParseArrayDescriptors(bytes) ==
    Eval(bytes, LAMBDA byte :
        IF byte = <<>> THEN Ok(<<DRID>>)
        ELSE Bind(ParseToString(byte), LAMBDA text : Ok(Split(text, 33))))

(* Iterator::zip: as long as the shorter of the two *)
Zip(xs, ys) ==
    [i \in 1..(IF Len(xs) < Len(ys) THEN Len(xs) ELSE Len(ys)) |-> <<xs[i], ys[i]>>]

(* Assemble without the length test: the names and descriptors are zipped   *)
(* whatever their counts.                                                   *)
AssembleUnchecked(fic, name, array_desc, data_parser) ==
    Ok([fic |-> fic, name |-> name, foc |-> Zip(array_desc, data_parser)])

(* parse_ddf, lines 273-281: the DDFEntry of as many names as descriptors *)
Assemble(fic, name, array_desc, data_parser) ==
    IF Len(array_desc) = Len(data_parser)
    THEN Ok([fic |-> fic, name |-> name, foc |-> Zip(array_desc, data_parser)])
    ELSE Fail(KindWith("InvalidDDF", name))

(* parse_ddf: parts.get(0) is always there, split_at(9) panics on a first   *)
(* part of fewer than 9 bytes.                                              *)
ParseDdf(byte) ==
    Eval(Split(byte, UNIT_SEPARATOR), LAMBDA parts :
        IF Len(parts[1]) < 9 THEN Panic
        ELSE
    Bind(Context(ParseToString(Slice(parts[1], 9, Len(parts[1]))),
                 Kind("CouldNotParseName")), LAMBDA name :
    Bind(Context(ParseFieldControls(Slice(parts[1], 0, 9)),
                 KindWith("InvalidDDF", name)), LAMBDA fic :
    Bind(IF Len(parts) < 2 THEN Fail(KindWith("InvalidDDF", name))
         ELSE Context(ParseArrayDescriptors(parts[2]),
                      KindWith("InvalidDDF", name)), LAMBDA array_desc :
    Bind(IF Len(parts) < 3 THEN Fail(KindWith("InvalidDDF", name))
         ELSE Context(ParseFormatControls(parts[3]),
                      KindWith("InvalidDDF", name)), LAMBDA data_parser :
        Assemble(fic, name, array_desc, data_parser))))))

----------------------------------------------------------------------------
(* Bounds and inputs of the data descriptive fields *)
MaxNames == 3

(* "1600;&-A " of test_parse_field_controls *)
TestFieldControls == B(<<"1", "6", "0", "0", ";", "&", "-", "A", " ">>)

(* Field controls: the test's, one with a data structure code out of its    *)
(* table, and a field that is too short to hold any.                        *)
FieldControlBytes ==
    { TestFieldControls,
      B(<<"3", "6", "0", "0", ";", "&", "-", "A", " ">>),
      B(<<"1", "6">>) }

FieldNames == {B(<<"C", "A", "T", "D">>), <<BadByte>>}

(* Array descriptors: 1..MaxNames subfield names joined with '!' *)
SubfieldNames == {B(<<"A">>), <<>>}

NameSeqs ==
    UNION {[1..n -> SubfieldNames] : n \in 1..MaxNames} \cup {<< <<BadByte>> >>}

(* Format controls of a field: one or two tokens *)
DdfTokens ==
    { Token(<<>>, B(<<"A">>), <<2>>, <<>>),
      Token(<<2>>, B(<<"R">>), <<>>, <<>>),
      Token(<<0>>, B(<<"I">>), <<>>, <<>>),
      Token(<<>>, B(<<"A">>), <<>>, B(<<"x">>)) }

DdfTokenSeqs == {<<t>> : t \in DdfTokens} \cup {<<t, u>> : t \in DdfTokens, u \in DdfTokens}

(* The body of a data descriptive field: the first nparts of field controls *)
(* + name, array descriptor, format controls and one more part, separated   *)
(* by unit separators.                                                      *)
FieldBody(fic, name, names, toks, nparts) ==
    Join(SubSeq(<< fic \o name, Join(names, 33), ControlString(toks, TRUE), <<>> >>,
                1, nparts),
         UNIT_SEPARATOR)

(* The five parts of a 9-byte field-control prefix: every code of the three *)
(* tables, codes out of them, and bytes that are no text.                   *)
DscBytes == {B(<<"0">>), B(<<"1">>), B(<<"2">>), B(<<"3">>), <<BadByte>>}

DtcBytes ==
    {B(<<"0">>), B(<<"1">>), B(<<"2">>), B(<<"5">>), B(<<"6">>), B(<<"3">>),
     <<BadByte>>}

AuxBytes == {B(<<"0", "0">>), <<BadByte, 48>>}

PrtBytes == {B(<<";", "&">>), <<BadByte, 38>>}

TesBytes ==
    {B(<<" ", " ", " ">>), B(<<"-", "A", " ">>), B(<<"%", "/", "A">>),
     B(<<"-", "A", "-">>), <<45, 65, BadByte>>}

----------------------------------------------------------------------------
(* catalog.rs: the leader and the directory *)

(* The Leader with flf and fpf taken from each other's byte *)
LeaderOfSwapped(byte, len, ba, flf, fpf, ftf) ==
    [rl |-> len, il |-> byte[1], li |-> byte[2], cei |-> byte[3],
     vn |-> byte[4], ai |-> byte[5], fcl |-> <<byte[6], byte[7]>>,
     ba |-> ba, csi |-> <<byte[13], byte[14], byte[15]>>,
     flf |-> fpf, fpf |-> flf, rsv |-> byte[18], ftf |-> ftf]

(* parse_leader, lines 159-173: byte[i] of the code is byte[i + 1] here *)
LeaderOf(byte, len, ba, flf, fpf, ftf) ==
    [rl |-> len, il |-> byte[1], li |-> byte[2], cei |-> byte[3],
     vn |-> byte[4], ai |-> byte[5], fcl |-> <<byte[6], byte[7]>>,
     ba |-> ba, csi |-> <<byte[13], byte[14], byte[15]>>,
     flf |-> flf, fpf |-> fpf, rsv |-> byte[18], ftf |-> ftf]

(* parse_leader: byte holds the leader after its 5-byte record length;      *)
(* indexing fewer than 19 bytes panics.                                     *)
ParseLeader(bytes, len) ==
    Eval(bytes, LAMBDA byte :
        IF Len(byte) < 19 THEN Panic
        ELSE
    Bind(Context(ParseToUsize(Slice(byte, 7, 12)), Kind("InvalidLeader")),
         LAMBDA ba :
    Bind(Context(ParseToUsize(Slice(byte, 15, 16)), Kind("InvalidLeader")),
         LAMBDA flf :
    Bind(Context(ParseToUsize(Slice(byte, 16, 17)), Kind("InvalidLeader")),
         LAMBDA fpf :
    Bind(Context(ParseToUsize(Slice(byte, 18, 19)), Kind("InvalidLeader")),
         LAMBDA ftf :
        Ok(LeaderOf(byte, len, ba, flf, fpf, ftf)))))))

(* Leader decode: the record length is parsed from the first 5 bytes        *)
(* (Catalog::new, lines 301-306), the rest by parse_leader (line 317).      *)
DecodeLeader(bytes) ==
    Bind(ParseToUsize(Slice(bytes, 0, 5)), LAMBDA len :
        Context(ParseLeader(Slice(bytes, 5, Len(bytes)), len), Kind("InvalidDDR")))

(* A directory entry decoded with its length and offset parts exchanged *)
ParseEntryExchanged(chunk, leader) ==
    Eval(chunk, LAMBDA d :
    Bind(ParseToString(Slice(d, 0, leader.ftf)), LAMBDA id :
    Bind(ParseToUsize(Slice(d, leader.ftf, leader.ftf + leader.flf)),
         LAMBDA length :
    Bind(ParseToUsize(Slice(d, leader.ftf + leader.flf, Len(d))),
         LAMBDA offset :
        Ok([id |-> id, length |-> offset, offset |-> length])))))

(* One chunk of the directory, lines 185-189 *)
ParseEntry(chunk, leader) ==
    Eval(chunk, LAMBDA d :
    Bind(ParseToString(Slice(d, 0, leader.ftf)), LAMBDA id :
    Bind(ParseToUsize(Slice(d, leader.ftf, leader.ftf + leader.flf)),
         LAMBDA length :
    Bind(ParseToUsize(Slice(d, leader.ftf + leader.flf, Len(d))),
         LAMBDA offset :
        Ok([id |-> id, length |-> length, offset |-> offset])))))

(* The loop of parse_directory over byte.chunks(chunksize), chunksize > 0:  *)
(* the chunks are taken in order and the first failure is returned.         *)
RECURSIVE ParseChunks(_, _, _)
ParseChunks(bytes, chunksize, leader) ==
    Eval(bytes, LAMBDA byte :
        IF byte = <<>> THEN Ok(<<>>)
        ELSE IF Len(byte) < chunksize THEN Fail(Kind("BadDirectoryData"))
        ELSE Bind(ParseEntry(Slice(byte, 0, chunksize), leader), LAMBDA e :
             Bind(ParseChunks(Slice(byte, chunksize, Len(byte)), chunksize, leader),
                  LAMBDA r : Ok(<<e>> \o r))))

(* parse_directory; slice::chunks panics on a chunk size of 0 *)
ParseDirectory(byte, leader) ==
    Eval(leader.ftf + leader.flf + leader.fpf, LAMBDA chunksize :
        IF chunksize = 0 THEN Panic
        ELSE ParseChunks(byte, chunksize, leader))

----------------------------------------------------------------------------
(* Bounds and inputs of the leader and the directory *)
MaxChunks == 3

(* A field of the leader as it is written and the number it stands for      *)
(* (none when it is not decimal).                                           *)
Field(bytes, val) == [bytes |-> bytes, val |-> val]

RecordLengths ==
    { Field(B(<<"0", "0", "2", "4", "1">>), <<241>>),
      Field(B(<<"0", "0", "0", "0", "0">>), <<0>>),
      Field(B(<<"0", "0", "2", "4", "x">>), <<>>) }

BaseAddresses ==
    { Field(B(<<"0", "0", "0", "5", "8">>), <<58>>),
      Field(B(<<"9", "9", "9", "9", "9">>), <<99999>>),
      Field(B(<<" ", " ", " ", "5", "8">>), <<>>) }

MapDigits ==
    { Field(B(<<"0">>), <<0>>), Field(B(<<"3">>), <<3>>),
      Field(B(<<"4">>), <<4>>), Field(B(<<"x">>), <<>>) }

(* Interchange level .. field control length, offsets 5-11 *)
LeaderHeads ==
    { B(<<"3", "L", "E", "1", " ", "0", "9">>),
      <<BadByte>> \o B(<<"D", " ", " ", "x", "0", "0">>) }

Reserved == {B(<<"0">>), B(<<" ">>)}

(* " ! ", the extended character set indicator of the test *)
TestCsi == B(<<" ", "!", " ">>)

LeaderBytes(rl, head, ba, flf, fpf, rsv, ftf) ==
    rl.bytes \o head \o ba.bytes \o TestCsi \o flf.bytes \o fpf.bytes \o rsv
        \o ftf.bytes

(* The entry map of a leader; only ftf, flf and fpf are read by parse_directory *)
EntryMap(ftf, flf, fpf) == [ftf |-> ftf, flf |-> flf, fpf |-> fpf]

EntryMaps ==
    { EntryMap(4, 3, 4), EntryMap(1, 2, 1), EntryMap(0, 1, 1),
      EntryMap(1, 0, 1), EntryMap(0, 0, 0) }

(* n as w decimal digits (its last w digits) *)
RECURSIVE PadDec(_, _)
PadDec(n, w) == IF w = 0 THEN <<>> ELSE PadDec(n \div 10, w - 1) \o <<48 + (n % 10)>>

(* A directory entry as it is to be written: bad names the part, if any,    *)
(* that is not written as it should be ("length": not decimal).             *)
DirEntry(tag, length, offset, bad) ==
    [tag |-> tag, length |-> length, offset |-> offset, bad |-> bad]

(* A length field that is no number: all 'x' *)
BadDec(w) == [i \in 1..w |-> 120]

(* The entries of test_parse_directory, one with a length that is not       *)
(* decimal and one with a tag that is not UTF-8.                            *)
DirEntries ==
    { DirEntry(B(<<"0", "0", "0", "0">>), 19, 0, "none"),
      DirEntry(B(<<"0", "0", "0", "1">>), 44, 19, "none"),
      DirEntry(B(<<"C", "A", "T", "D">>), 120, 63, "none"),
      DirEntry(B(<<"C", "A", "T", "D">>), 120, 63, "length"),
      DirEntry(<<BadByte>> \o B(<<"A", "T", "D">>), 19, 0, "none") }

(* The chunk of an entry under an entry map *)
Chunk(e, m) ==
    SubSeq(e.tag, 1, m.ftf)
        \o (IF e.bad = "length" THEN BadDec(m.flf) ELSE PadDec(e.length, m.flf))
        \o PadDec(e.offset, m.fpf)

RECURSIVE Directory(_, _)
Directory(es, m) ==
    IF es = <<>> THEN <<>> ELSE Chunk(Head(es), m) \o Directory(Tail(es), m)

EntrySeqs == UNION {[1..n -> DirEntries] : n \in 0..MaxChunks}

(* What may follow the last full chunk: nothing, one byte, or a chunk less  *)
(* its last byte.                                                           *)
Remainders(m) ==
    LET c == Chunk(DirEntry(B(<<"0", "0", "0", "0">>), 19, 0, "none"), m)
    IN  {<<>>, B(<<"0">>), SubSeq(c, 1, Len(c) - 1)}

----------------------------------------------------------------------------
(* catalog.rs: the data descriptive record and Catalog::new *)

(* The fields of the directory entries dirs, in order, up to the first that *)
(* fails; the span [offset, offset + length - 1) is sliced from the field   *)
(* area, which panics when it is not within it (or when offset + length is  *)
(* 0 and the subtraction underflows).                                       *)
RECURSIVE ParseDdfsFrom(_, _)
ParseDdfsFrom(byte, entries) ==
    Eval(entries, LAMBDA dirs :
        IF dirs = <<>> THEN Ok(<<>>)
        ELSE LET s == Head(dirs).offset
                 e == Head(dirs).offset + Head(dirs).length - 1
             IN  IF e < 0 \/ s > e \/ e > Len(byte) THEN Panic
                 ELSE Bind(Context(ParseDdf(Slice(byte, s, e)), Kind("InvalidDDFS")),
                           LAMBDA f :
                      Bind(ParseDdfsFrom(byte, Tail(dirs)), LAMBDA r :
                          Ok(<<f>> \o r))))

(* parse_ddfs without skip(1): the file control field is compiled too *)
ParseDdfsNoSkip(byte, dirs) == Eval(byte, LAMBDA area : ParseDdfsFrom(area, dirs))

(* parse_ddfs: dirs.iter().skip(1) *)
ParseDdfs(byte, dirs) ==
    Eval(byte, LAMBDA area :
        ParseDdfsFrom(area, IF dirs = <<>> THEN <<>> ELSE Tail(dirs)))

(* The index of the first RECORD_SEPARATOR of bytes, or -1 *)
Position(bytes, b) ==
    LET idx == {i \in DOMAIN bytes : bytes[i] = b}
    IN  IF idx = {} THEN 0 - 1
        ELSE (CHOOSE k \in idx : \A j \in idx : k <= j) - 1

(* parse_ddr: ddr_bytes[..19] and ddr_bytes[19..field_area_idx] panic when  *)
(* out of range.                                                            *)
ParseDdr(bytes, len) ==
    Eval(bytes, LAMBDA ddr_bytes :
        IF Len(ddr_bytes) < 19 THEN Panic
        ELSE
    Bind(Context(ParseLeader(Slice(ddr_bytes, 0, 19), len), Kind("InvalidDDR")),
         LAMBDA leader :
    Eval(Position(ddr_bytes, RECORD_SEPARATOR), LAMBDA field_area_idx :
        IF field_area_idx < 0 THEN Fail(Kind("BadDirectoryData"))
        ELSE IF field_area_idx < 19 THEN Panic
        ELSE
    Bind(Context(ParseDirectory(Slice(ddr_bytes, 19, field_area_idx), leader),
                 Kind("InvalidDDR")), LAMBDA dirs :
    Bind(Context(ParseDdfs(Slice(ddr_bytes, field_area_idx + 1, Len(ddr_bytes)),
                           dirs),
                 Kind("InvalidDDR")), LAMBDA data_descriptive_fields :
        Ok([leader |-> leader, dirs |-> dirs,
            data_descriptive_fields |-> data_descriptive_fields]))))))

(* Catalog::new on a source holding the bytes src: the Catalog is its DDR   *)
(* and the position its reader is left at.  A length below 5 makes          *)
(* ddr_length - 5 underflow (a panic, or an allocation that cannot be       *)
(* made).                                                                   *)
CatalogNew(source) ==
    Eval(source, LAMBDA src :
        IF Len(src) < 5 THEN Fail(Kind("IOError"))
        ELSE
    Bind(ParseToUsize(Slice(src, 0, 5)), LAMBDA ddr_length :
        IF ddr_length < 5 THEN Panic
        ELSE IF Len(src) < ddr_length THEN Fail(Kind("IOError"))
        ELSE
    Bind(Context(ParseDdr(Slice(src, 5, ddr_length), ddr_length),
                 Kind("CouldNotParseCatalog")), LAMBDA ddr :
        Ok([ddr |-> ddr, pos |-> ddr_length]))))

----------------------------------------------------------------------------
(* Bounds and inputs of Catalog::new *)
MaxFields == 2

(* Field bodies: a field of two subfields, one whose names and descriptors  *)
(* differ in number, and one too short to hold field controls.              *)
CatalogFields ==
    { FieldBody(TestFieldControls, B(<<"C", "A", "T", "D">>),
                <<B(<<"A">>), B(<<"L">>)>>,
                <<Token(<<2>>, B(<<"A">>), <<>>, <<>>)>>, 3),
      FieldBody(TestFieldControls, B(<<"C", "A", "T", "D">>),
                <<B(<<"A">>)>>,
                <<Token(<<2>>, B(<<"R">>), <<>>, <<>>)>>, 3),
      FieldBody(B(<<"1", "6">>), <<>>, << <<>> >>,
                <<Token(<<>>, B(<<"A">>), <<>>, <<>>)>>, 3) }

FieldSeqs == UNION {[1..n -> CatalogFields] : n \in 0..MaxFields}

(* The field area: every field followed by its terminator *)
RECURSIVE FieldArea(_)
FieldArea(fs) ==
    IF fs = <<>> THEN <<>>
    ELSE Head(fs) \o <<RECORD_SEPARATOR>> \o FieldArea(Tail(fs))

(* The offset of field i in the field area *)
OffsetOf(fs, i) == Len(FieldArea(SubSeq(fs, 1, i - 1)))

(* The directory of the fields under the entry map 4/3/4 of the test.  mode *)
(* "exact": as it should be; "long": the last field 5 bytes longer than the *)
(* field area holds; "zero": lengths and offsets 0; "cut": the last byte of *)
(* the directory missing.                                                   *)
CatalogDirectory(fs, mode) ==
    LET entry(i) ==
            DirEntry(PadDec(i - 1, 4),
                     IF mode = "zero" THEN 0
                     ELSE Len(fs[i]) + 1 + (IF mode = "long" /\ i = Len(fs) THEN 5 ELSE 0),
                     IF mode = "zero" THEN 0 ELSE OffsetOf(fs, i),
                     "none")
        d == Directory([i \in DOMAIN fs |-> entry(i)], EntryMap(4, 3, 4))
    IN  IF mode = "cut" THEN SubSeq(d, 1, Len(d) - 1) ELSE d

DirectoryModes == {"exact", "long", "zero", "cut"}

(* The entry maps of the leader: the test's, one that is no number, and one *)
(* of zero widths.                                                          *)
CatalogEntryMaps ==
    {B(<<"3", "4", "0", "4">>), B(<<"3", "4", "0", "x">>), B(<<"0", "0", "0", "0">>)}

(* The record length written in the leader of a record of n bytes.          *)
(* "exact": n; "under": 3, less than its own 5 bytes; "leader": 10, less    *)
(* than a leader; "over": more than the source holds; "text": no number.    *)
DeclaredLength(n, mode) ==
    CASE mode = "exact" -> PadDec(n, 5)
      [] mode = "under" -> PadDec(3, 5)
      [] mode = "leader" -> PadDec(10, 5)
      [] mode = "over" -> PadDec(n + 1, 5)
      [] mode = "text" -> B(<<"0", "0", "x", "0", "0">>)

LengthModes == {"exact", "under", "leader", "over", "text"}

(* The bytes of a data descriptive record and, with whole = FALSE, only the *)
(* first 3 of them.                                                         *)
CatalogSource(fs, dmode, emap, lmode, sep, whole) ==
    LET dir == CatalogDirectory(fs, dmode)
        body == dir \o (IF sep THEN <<RECORD_SEPARATOR>> ELSE <<>>) \o FieldArea(fs)
        ba == PadDec(24 + Len(dir) + 1, 5)
        leader == B(<<"3", "L", "E", "1", " ", "0", "9">>) \o ba \o TestCsi \o emap
        src == DeclaredLength(24 + Len(body), lmode) \o leader \o body
    IN  IF whole THEN src ELSE SubSeq(src, 1, 3)

----------------------------------------------------------------------------
Init ==
    /\ rdr = [buf |-> <<>>, pos |-> 0]
    /\ op = "none"
    /\ arg = <<>>
    /\ ret = <<>>

(* Cursor::new(bytes) *)
Open ==
    /\ op = "none"
    /\ \E b \in Buffers : rdr' = [buf |-> b, pos |-> 0]
    /\ op' = "open"
    /\ arg' = <<>>
    /\ ret' = <<>>

(* pd.parse(&mut rdr): one subfield is decoded at the cursor.  A failed     *)
(* read_exact leaves the position where it was or at the end, depending on  *)
(* the standard library's version.                                          *)
Parse ==
    /\ op \in {"open", "parse"}
    /\ op = "parse" => ret.tag # "Panic"
    /\ \E pd \in Descriptors :
         \E raw \in {ReadRaw(pd, rdr)} :
             /\ arg' = [pd |-> pd, pos |-> rdr.pos]
             /\ ret' = ParseDataParse(pd, rdr)
             /\ \E p \in IF raw.res.tag = "Err"
                         THEN {rdr.pos, Len(rdr.buf)}
                         ELSE {rdr.pos + raw.n} :
                  rdr' = [rdr EXCEPT !.pos = p]
    /\ op' = "parse"

(* ParseData::from_str(token) *)
FromStrCall ==
    /\ op = "none"
    /\ \E tok \in Tokens :
         /\ arg' = [token |-> tok, bytes |-> Render(tok)]
         /\ ret' = FromStr(Render(tok))
    /\ op' = "from_str"
    /\ UNCHANGED rdr

(* parse_format_controls(byte) *)
ParseFormatControlsCall ==
    /\ op = "none"
    /\ \E toks \in TokenSeqs, wrapped \in BOOLEAN :
         /\ wrapped => toks # <<>>
         /\ \E span \in {ControlString(toks, wrapped)}
                          \cup (IF toks = <<>> THEN ShortSpans ELSE {}) :
              /\ arg' = [tokens |-> toks, wrapped |-> wrapped, bytes |-> span]
              /\ ret' = ParseFormatControls(span)
    /\ op' = "parse_format_controls"
    /\ UNCHANGED rdr

(* parse_ddf(byte) *)
ParseDdfCall ==
    /\ op = "none"
    /\ \E fic \in FieldControlBytes, name \in FieldNames, names \in NameSeqs,
          toks \in DdfTokenSeqs, nparts \in 1..4 :
         /\ nparts < 2 => names = << <<>> >>
         /\ nparts < 3 => toks = <<Token(<<>>, B(<<"A">>), <<2>>, <<>>)>>
         /\ arg' = [fic |-> fic, name |-> name, names |-> names, tokens |-> toks,
                    nparts |-> nparts,
                    bytes |-> FieldBody(fic, name, names, toks, nparts)]
         /\ ret' = ParseDdf(FieldBody(fic, name, names, toks, nparts))
    /\ op' = "parse_ddf"
    /\ UNCHANGED rdr

(* parse_field_controls(byte) on a 9-byte prefix *)
ParseFieldControlsCall ==
    /\ op = "none"
    /\ \E dsc \in DscBytes, dtc \in DtcBytes, aux \in AuxBytes, prt \in PrtBytes,
          tes \in TesBytes :
         /\ arg' = [dsc |-> dsc, dtc |-> dtc, aux |-> aux, prt |-> prt, tes |-> tes,
                    bytes |-> dsc \o dtc \o aux \o prt \o tes]
         /\ ret' = ParseFieldControls(dsc \o dtc \o aux \o prt \o tes)
    /\ op' = "parse_field_controls"
    /\ UNCHANGED rdr

(* Leader decode of the 24 bytes of a leader *)
ParseLeaderCall ==
    /\ op = "none"
    /\ \E rl \in RecordLengths, head \in LeaderHeads, ba \in BaseAddresses,
          flf \in MapDigits, fpf \in MapDigits, rsv \in Reserved, ftf \in MapDigits :
         /\ arg' = [rl |-> rl, head |-> head, ba |-> ba, flf |-> flf, fpf |-> fpf,
                    rsv |-> rsv, ftf |-> ftf,
                    bytes |-> LeaderBytes(rl, head, ba, flf, fpf, rsv, ftf)]
         /\ ret' = DecodeLeader(LeaderBytes(rl, head, ba, flf, fpf, rsv, ftf))
    /\ op' = "parse_leader"
    /\ UNCHANGED rdr

(* parse_directory(byte, &leader) *)
ParseDirectoryCall ==
    /\ op = "none"
    /\ \E m \in EntryMaps, es \in EntrySeqs :
         \E rem \in Remainders(m) :
            /\ arg' = [map |-> m, entries |-> es, rem |-> rem,
                       bytes |-> Directory(es, m) \o rem]
            /\ ret' = ParseDirectory(Directory(es, m) \o rem, m)
    /\ op' = "parse_directory"
    /\ UNCHANGED rdr

(* Catalog::new(rdr): the reader is left after the bytes read *)
CatalogNewCall ==
    /\ op = "none"
    /\ \E fs \in FieldSeqs, dmode \in DirectoryModes, emap \in CatalogEntryMaps,
          lmode \in LengthModes, sep \in BOOLEAN, whole \in BOOLEAN :
         /\ ~whole => (fs = <<>> /\ dmode = "exact" /\ lmode = "exact" /\ sep)
         /\ \E src \in {CatalogSource(fs, dmode, emap, lmode, sep, whole)} :
              \E res \in {CatalogNew(src)} :
                 /\ arg' = [fields |-> fs, dmode |-> dmode, emap |-> emap,
                            lmode |-> lmode, sep |-> sep, whole |-> whole]
                 /\ ret' = res
                 /\ rdr' = [buf |-> src,
                            pos |-> IF res.tag = "Ok" THEN res.val.pos ELSE 0]
    /\ op' = "Catalog_new"

(* The call returns and its values are dropped *)
Return ==
    /\ op # "none"
    /\ rdr' = [buf |-> <<>>, pos |-> 0]
    /\ op' = "none"
    /\ arg' = <<>>
    /\ ret' = <<>>

Next ==
    \/ Open
    \/ Parse
    \/ FromStrCall
    \/ ParseFormatControlsCall
    \/ ParseDdfCall
    \/ ParseFieldControlsCall
    \/ ParseLeaderCall
    \/ ParseDirectoryCall
    \/ CatalogNewCall
    \/ Return

Spec == Init /\ [][Next]_vars

----------------------------------------------------------------------------
(* The subfield codec *)

(* The cursor as it was when the last parse began *)
Before == [buf |-> rdr.buf, pos |-> arg.pos]

(* The bytes the last parse had left to read *)
Rest == SubSeq(rdr.buf, arg.pos + 1, Len(rdr.buf))

(* C1: for an Integer or Float descriptor, Fixed or Variable, whose decoded *)
(* text is d: an empty d gives the null variant (not zero, not an error); d *)
(* a valid literal gives its value, "00001" giving Integer(Some(1)) and     *)
(* "0.005" Float(Some(0.005)); any other d gives ParseIntError /            *)
(* ParseFloatError carrying d unchanged.                                    *)
C1_NumericSubfield ==
    (op = "parse" /\ arg.pd.typ \in {"Integer", "Float"}) =>
        LET raw == ReadRaw(arg.pd, Before).res
            d == raw.val
            int == arg.pd.typ = "Integer"
            lit == IF int THEN StrToI64(d) ELSE StrToF64(d)
        IN  (raw.tag = "Ok" /\ IsUtf8(d)) =>
              /\ d = <<>> =>
                    ret = Ok(IF int THEN DataInteger(<<>>) ELSE DataFloat(<<>>))
              /\ (d # <<>> /\ lit.ok) =>
                    ret = Ok(IF int THEN DataInteger(<<lit.val>>)
                                    ELSE DataFloat(<<lit.val>>))
              /\ (d # <<>> /\ ~lit.ok) =>
                    /\ ret.tag = "Err"
                    /\ ret.err[1] =
                          KindWith(IF int THEN "ParseIntError" ELSE "ParseFloatError", d)
              /\ (int /\ d = B(<<"0", "0", "0", "0", "1">>)) =>
                    ret = Ok(DataInteger(<<1>>))
              /\ (~int /\ d = B(<<"0", ".", "0", "0", "5">>)) =>
                    ret = Ok(DataFloat(<<[mant |-> 5, scale |-> 3]>>))

(* An empty variable-width Integer subfield was decoded to null *)
C1_Witness ==
    /\ op = "parse"
    /\ arg.pd = Variable("Integer")
    /\ Rest # <<>> /\ Rest[1] = UNIT_SEPARATOR
    /\ ret = Ok(DataInteger(<<>>))

(* C2: a Variable decode returns as text exactly the bytes before the first *)
(* unit separator and leaves the cursor right after that separator; with no *)
(* separator left in the cursor it fails with an I/O error kind.            *)
C2_VariableDecode ==
    (op = "parse" /\ arg.pd.form = "Variable") =>
        LET seps == {i \in DOMAIN Rest : Rest[i] = UNIT_SEPARATOR}
            first == CHOOSE i \in seps : \A j \in seps : i <= j
            text == SubSeq(Rest, 1, first - 1)
        IN  IF seps = {}
            THEN ret.tag = "Err" /\ ErrKind(ret) = "IOError"
            ELSE /\ rdr.pos = arg.pos + first
                 /\ (arg.pd.typ = "String" /\ IsUtf8(text)) =>
                        ret = Ok(DataString(text))
                 /\ (arg.pd.typ # "String" /\ IsUtf8(text)) =>
                        ret = Convert(arg.pd.typ, text)

----------------------------------------------------------------------------
(* The format controls *)

(* The token is [decimal count] letter A|I|R [ "(" decimal width ")" ] *)
WellFormed(tok) ==
    tok.letter \in {B(<<"A">>), B(<<"I">>), B(<<"R">>)} /\ tok.tail = <<>>

(* The count and the descriptor that a well-formed token stands for *)
CountOf(tok) == IF tok.count = <<>> THEN 1 ELSE tok.count[1]

DescriptorOf(tok) ==
    LET t == CASE tok.letter = B(<<"A">>) -> "String"
               [] tok.letter = B(<<"I">>) -> "Integer"
               [] tok.letter = B(<<"R">>) -> "Float"
    IN  IF tok.width = <<>> THEN Variable(t) ELSE Fixed(t, tok.width[1])

RECURSIVE Expected(_)
Expected(toks) ==
    IF toks = <<>> THEN <<>>
    ELSE Repeat(DescriptorOf(Head(toks)), CountOf(Head(toks))) \o Expected(Tail(toks))

RECURSIVE SumCounts(_)
SumCounts(toks) ==
    IF toks = <<>> THEN 0 ELSE CountOf(Head(toks)) + SumCounts(Tail(toks))

(* "(A(2),2I(10),2R)" *)
ExampleControls ==
    B(<<"(", "A", "(", "2", ")", ",", "2", "I", "(", "1", "0", ")", ",", "2", "R", ")">>)

(* C3: for a control string "(" t1 "," ... "," tn ")" of well-formed tokens, *)
(* parse_format_controls returns, in token order, count-many copies of each *)
(* token's descriptor (Fixed(type, width) with a width, Variable(type)      *)
(* without; A, I, R being String, Integer, Float), as many as the counts    *)
(* sum to; "(A(2),2I(10),2R)" gives the five descriptors of the test.       *)
C3_FormatControlExpansion ==
    /\ (op = "from_str" /\ WellFormed(arg.token)) =>
          ret = Ok(<<CountOf(arg.token), DescriptorOf(arg.token)>>)
    /\ (/\ op = "parse_format_controls"
        /\ arg.wrapped
        /\ \A i \in DOMAIN arg.tokens : WellFormed(arg.tokens[i])) =>
          /\ ret = Ok(Expected(arg.tokens))
          /\ Len(ret.val) = SumCounts(arg.tokens)
          /\ arg.bytes = ExampleControls =>
               ret.val = << Fixed("String", 2), Fixed("Integer", 10),
                            Fixed("Integer", 10), Variable("Float"),
                            Variable("Float") >>

(* "(A(2),2I(10),2R)" was expanded *)
C3_Witness ==
    /\ op = "parse_format_controls"
    /\ arg.bytes = ExampleControls
    /\ ret.tag = "Ok"
    /\ Len(ret.val) = 5

(* C8: a token that is not exactly [count] letter [ "(" width ")" ] makes   *)
(* from_str fail with UnParsableFormatControl carrying the token, and       *)
(* parse_format_controls return that error for the first such token.        *)
C8_MalformedTokenRejected ==
    /\ (op = "from_str" /\ ~WellFormed(arg.token)) =>
          ret = Fail(KindWith("UnParsableFormatControl", arg.bytes))
    /\ (/\ op = "parse_format_controls"
        /\ arg.wrapped
        /\ \E i \in DOMAIN arg.tokens : ~WellFormed(arg.tokens[i])) =>
          LET bad == {i \in DOMAIN arg.tokens : ~WellFormed(arg.tokens[i])}
              i == CHOOSE k \in bad : \A j \in bad : k <= j
          IN  ret = Fail(KindWith("UnParsableFormatControl", Render(arg.tokens[i])))

----------------------------------------------------------------------------
(* The schema compiler *)

(* The names the array descriptor of the last parse_ddf stands for *)
NamesOf == IF Join(arg.names, 33) = <<>> THEN <<DRID>> ELSE arg.names

(* C4: for a field body with a 9-byte control prefix, a name and array      *)
(* descriptor that are text and well-formed format controls, with names the *)
(* array descriptor split on '!' ("DRID" for an empty one) and descs the    *)
(* expanded descriptors: different counts always give InvalidDDF carrying   *)
(* the field name; equal counts with valid field controls give a DDFEntry   *)
(* whose i-th subfield is (names[i], descs[i]); no DDFEntry ever has fewer  *)
(* or more subfields than names or descriptors.                             *)
C4_NamesZippedWithDescriptors ==
    (/\ op = "parse_ddf"
     /\ arg.nparts >= 3
     /\ Len(arg.fic) = 9
     /\ IsUtf8(arg.name)
     /\ \A i \in DOMAIN arg.names : IsUtf8(arg.names[i])
     /\ \A i \in DOMAIN arg.tokens : WellFormed(arg.tokens[i])) =>
        LET names == NamesOf
            descs == Expected(arg.tokens)
        IN  /\ Len(names) # Len(descs) =>
                 /\ ret.tag = "Err"
                 /\ ret.err[1] = KindWith("InvalidDDF", arg.name)
            /\ (Len(names) = Len(descs) /\ arg.fic = TestFieldControls) =>
                 ret.tag = "Ok"
            /\ ret.tag = "Ok" =>
                 /\ ret.val.name = arg.name
                 /\ Len(ret.val.foc) = Len(names)
                 /\ Len(ret.val.foc) = Len(descs)
                 /\ \A i \in DOMAIN names : ret.val.foc[i] = <<names[i], descs[i]>>

(* A field of two names and two descriptors was compiled *)
C4_Witness ==
    /\ op = "parse_ddf"
    /\ Len(arg.names) = 2
    /\ NamesOf = arg.names
    /\ ret.tag = "Ok"
    /\ Len(ret.val.foc) = 2

----------------------------------------------------------------------------
(* The leader and the directory *)

(* "002413LE1 0900058 ! 3404" *)
ExampleLeader ==
    B(<< "0", "0", "2", "4", "1", "3", "L", "E", "1", " ", "0", "9",
         "0", "0", "0", "5", "8", " ", "!", " ", "3", "4", "0", "4" >>)

(* C9: a 24-byte leader with decimal digits at offsets 0-4, 12-16, 20, 21   *)
(* and 23 decodes, rl, ba, flf, fpf, ftf being the numbers written there    *)
(* and il, li, cei, vn, ai, fcl, csi, rsv the characters at offsets 5, 6,   *)
(* 7, 8, 9, 10-11, 17-19, 22; "002413LE1 0900058 ! 3404" gives rl = 241,    *)
(* ba = 58, flf = 3, fpf = 4, rsv = '0', ftf = 4.                           *)
C9_LeaderDecode ==
    (/\ op = "parse_leader"
     /\ arg.rl.val # <<>> /\ arg.ba.val # <<>>
     /\ arg.flf.val # <<>> /\ arg.fpf.val # <<>> /\ arg.ftf.val # <<>>) =>
        /\ ret.tag = "Ok"
        /\ ret.val.rl = arg.rl.val[1]
        /\ ret.val.ba = arg.ba.val[1]
        /\ ret.val.flf = arg.flf.val[1]
        /\ ret.val.fpf = arg.fpf.val[1]
        /\ ret.val.ftf = arg.ftf.val[1]
        /\ ret.val.il = arg.bytes[6]
        /\ ret.val.li = arg.bytes[7]
        /\ ret.val.cei = arg.bytes[8]
        /\ ret.val.vn = arg.bytes[9]
        /\ ret.val.ai = arg.bytes[10]
        /\ ret.val.fcl = <<arg.bytes[11], arg.bytes[12]>>
        /\ ret.val.csi = <<arg.bytes[18], arg.bytes[19], arg.bytes[20]>>
        /\ ret.val.rsv = arg.bytes[23]
        /\ arg.bytes = ExampleLeader =>
             /\ ret.val.rl = 241 /\ ret.val.ba = 58
             /\ ret.val.flf = 3 /\ ret.val.fpf = 4
             /\ ret.val.rsv = 48 /\ ret.val.ftf = 4

(* The leader of test_parse_leader was decoded *)
C9_Witness ==
    /\ op = "parse_leader"
    /\ arg.bytes = ExampleLeader
    /\ ret.tag = "Ok"
    /\ ret.val.flf = 3

(* The chunk size of the last parse_directory *)
ChunkSize == arg.map.ftf + arg.map.flf + arg.map.fpf

(* C5: a directory span whose length is not an exact multiple of the chunk  *)
(* size makes parse_directory fail with BadDirectoryData, whatever the      *)
(* chunks before the short one hold.                                        *)
C5_MisalignedDirectory ==
    (/\ op = "parse_directory"
     /\ IF ChunkSize = 0 THEN Len(arg.bytes) # 0
        ELSE Len(arg.bytes) % ChunkSize # 0) =>
        ret = Fail(Kind("BadDirectoryData"))

RECURSIVE Pow10(_)
Pow10(w) == IF w = 0 THEN 1 ELSE 10 * Pow10(w - 1)

(* The DirectoryEntry that the entry e is written for *)
EntryOf(e, m) ==
    [id |-> SubSeq(e.tag, 1, m.ftf),
     length |-> e.length % Pow10(m.flf),
     offset |-> e.offset % Pow10(m.fpf)]

(* The span is n whole chunks with decimal length and offset parts, of at   *)
(* least one digit each.                                                    *)
WholeDecimalChunks ==
    /\ op = "parse_directory"
    /\ arg.rem = <<>>
    /\ arg.map.flf > 0 /\ arg.map.fpf > 0
    /\ \A i \in DOMAIN arg.entries : arg.entries[i].bad = "none"

(* "0000019000000010440019CATD1200063" under the widths 4/3/4 *)
ExampleDirectory ==
    /\ arg.map = EntryMap(4, 3, 4)
    /\ arg.bytes = B(<< "0", "0", "0", "0", "0", "1", "9", "0", "0", "0", "0",
                        "0", "0", "0", "1", "0", "4", "4", "0", "0", "1", "9",
                        "C", "A", "T", "D", "1", "2", "0", "0", "0", "6", "3" >>)

(* C10 as stated: a span of n chunks whose length and offset parts are      *)
(* decimal gives exactly n entries in input order, the i-th made of the     *)
(* chunk's tag, length and offset parts.                                    *)
C10_DirectoryDecode ==
    WholeDecimalChunks =>
        ret = Ok([i \in DOMAIN arg.entries |-> EntryOf(arg.entries[i], arg.map)])

(* C10 amended: a span of n chunks whose tag parts are valid UTF-8 and      *)
(* whose length and offset parts are decimal numbers of at least one digit  *)
(* gives exactly n entries in input order, the i-th made of the chunk's     *)
(* tag, length and offset parts; the directory of the test gives            *)
(* {"0000",19,0}, {"0001",44,19}, {"CATD",120,63}.                          *)
C10_DirectoryDecodeUtf8Tags ==
    (/\ WholeDecimalChunks
     /\ \A i \in DOMAIN arg.entries : IsUtf8(arg.entries[i].tag)) =>
        /\ ret = Ok([i \in DOMAIN arg.entries |-> EntryOf(arg.entries[i], arg.map)])
        /\ ExampleDirectory =>
             ret.val = << [id |-> B(<<"0", "0", "0", "0">>), length |-> 19, offset |-> 0],
                          [id |-> B(<<"0", "0", "0", "1">>), length |-> 44, offset |-> 19],
                          [id |-> B(<<"C", "A", "T", "D">>), length |-> 120, offset |-> 63] >>

(* The directory of test_parse_directory was decoded to its three entries *)
C10_Witness ==
    /\ op = "parse_directory"
    /\ ExampleDirectory
    /\ ret.tag = "Ok"
    /\ Len(ret.val) = 3

----------------------------------------------------------------------------
(* Opening a catalog *)

(* C6: Catalog::new returns a Catalog or an Error, and every failure of     *)
(* the opening step is an Error of kind CouldNotParseCatalog.               *)
C6_OpeningFailuresWrapped ==
    op = "Catalog_new" =>
        /\ ret.tag \in {"Ok", "Err"}
        /\ ret.tag = "Err" => ErrKind(ret) = "CouldNotParseCatalog"

(* The schemas and the directory entries of the catalog just opened *)
Schemas == ret.val.ddr.data_descriptive_fields
Dirs == ret.val.ddr.dirs

(* The k-th schema is the one compiled from the span of the (k+1)-th        *)
(* directory entry in the field area.                                       *)
SchemasFollowDirectory ==
    \A k \in DOMAIN Schemas :
        /\ k + 1 \in DOMAIN Dirs
        /\ Ok(Schemas[k]) =
             ParseDdf(Slice(FieldArea(arg.fields), Dirs[k + 1].offset,
                            Dirs[k + 1].offset + Dirs[k + 1].length - 1))
        /\ Dirs[k + 1].offset = OffsetOf(arg.fields, k + 1)
        /\ Dirs[k + 1].length = Len(arg.fields[k + 1]) + 1

----------------------------------------------------------------------------
(* The field controls *)

(* The three tables of the field controls: code and meaning *)
DscTable ==
    { <<B(<<"0">>), "SDI">>, <<B(<<"1">>), "LS">>, <<B(<<"2">>), "MDS">> }

DtcTable ==
    { <<B(<<"0">>), "CS">>, <<B(<<"1">>), "IP">>, <<B(<<"2">>), "EP">>,
      <<B(<<"5">>), "BF">>, <<B(<<"6">>), "MDT">> }

TesTable ==
    { <<B(<<" ", " ", " ">>), "LE0">>, <<B(<<"-", "A", " ">>), "LE1">>,
      <<B(<<"%", "/", "A">>), "LE2">> }

InTable(code, table) == \E p \in table : p[1] = code

Lookup(code, table) == (CHOOSE p \in table : p[1] = code)[2]

(* The FieldControls that the tables give for the prefix decoded *)
ExpectedControls ==
    [dsc |-> Lookup(arg.dsc, DscTable), dtc |-> Lookup(arg.dtc, DtcTable),
     aux |-> arg.aux, prt |-> arg.prt, tes |-> Lookup(arg.tes, TesTable)]

(* The error names the kind and the literal somewhere in its chain *)
Names(res, kind, literal) ==
    /\ res.tag = "Err"
    /\ \E i \in DOMAIN res.err : res.err[i] = KindWith(kind, literal)

(* The five parts of the prefix are text *)
ControlsAreText ==
    /\ IsUtf8(arg.dsc) /\ IsUtf8(arg.dtc) /\ IsUtf8(arg.aux)
    /\ IsUtf8(arg.prt) /\ IsUtf8(arg.tes)

----------------------------------------------------------------------------
(* Empty format controls *)

(* C12: a format-control span of fewer than 2 bytes, the empty span         *)
(* included, makes parse_format_controls fail with EmptyFormatControls; no  *)
(* list of descriptors is returned, not even an empty one.                  *)
C12_EmptyFormatControls ==
    (op = "parse_format_controls" /\ Len(arg.bytes) < 2) =>
        /\ ret = Fail(Kind("EmptyFormatControls"))
        /\ ret.tag # "Ok"

(* The empty span of test_parse_format_controls_with_empty, and a span of   *)
(* one byte, were refused: the state after either call                      *)
C12_Witness ==
    /\ op = "parse_format_controls"
    /\ arg.bytes \in {<<>>, <<40>>}
    /\ ret.tag = "Err"

----------------------------------------------------------------------------
(* The entry map of an accepted leader *)

(* C13: a Leader that leader decode returns has flf > 0, fpf > 0 and        *)
(* ftf > 0, so the chunk size of its directory is at least 3; a leader      *)
(* with a zero width is not accepted, and opening a catalog never hands     *)
(* one to the directory decoder, whose chunks(0) panics.                    *)
C13_PositiveEntryMap ==
    /\ (op = "parse_leader" /\ ret.tag = "Ok") =>
          /\ ret.val.flf > 0 /\ ret.val.fpf > 0 /\ ret.val.ftf > 0
          /\ ret.val.ftf + ret.val.flf + ret.val.fpf >= 3
    /\ (op = "Catalog_new" /\ ret.tag = "Ok") =>
          /\ ret.val.ddr.leader.flf > 0 /\ ret.val.ddr.leader.fpf > 0
          /\ ret.val.ddr.leader.ftf > 0
    /\ op = "Catalog_new" => ret.tag # "Panic" \/ arg.emap # B(<<"0", "0", "0", "0">>)

====
